---- MODULE Spec2Model ----
(***************************************************************************)
(* Model of Navier_Stokes_Solver_2D.ipynb: the finite-difference operators, *)
(* the predictor, the Jacobi pressure update, the corrector, the iterator   *)
(* and the timestep loop.                                                   *)
(*                                                                          *)
(* Floating-point numbers are modelled as fixed-point numbers: a finite     *)
(* value is a whole number of quanta (1/Scale), every array operation       *)
(* rounds to the nearest quantum, a result beyond MaxFloat overflows to an  *)
(* infinity, and inf - inf and 0 * inf give NaN.  Python scalars (dt, the   *)
(* element length, ...) are exact rationals <<numerator, denominator>>.     *)
(* Arrays are 0-based: a[i][j] is row i, column j.                          *)
(***************************************************************************)
EXTENDS Integers, Sequences, FiniteSets, TLC

\* ------------------------------------------------------------ bounds
\* Grid points per axis (N_POINTS = 128 in the notebook).
N_POINTS == 5
\* Largest TIMESTEPS and JACOBI_ITERATIONS a configuration may hold.
MaxT == 2
MaxK == 2
\* Largest finite magnitude of the modelled floating-point format, in units.
MaxFloat == 100
\* Quanta per unit of the modelled floating-point format.
Scale == 4
\* Largest TIMESTEPS of the runs from divergence-free initial velocities.
MaxLongT == 5

\* ------------------------------------------------------------ numbers
Fin(q) == <<"fin", q>>
PInf == <<"inf", 1>>
NInf == <<"inf", -1>>
NaN == <<"nan", 0>>

Lim == MaxFloat * Scale

IsNaN(a) == a[1] = "nan"
IsInf(a) == a[1] = "inf"
IsFinite(a) == a[1] = "fin"

\* n / d rounded to the nearest integer (d > 0).
Round(n, d) == (2 * n + d) \div (2 * d)

\* A result of q quanta, overflowing to an infinity beyond the format's range.
Norm(q) == IF q > Lim THEN PInf ELSE IF q < -Lim THEN NInf ELSE Fin(q)

Sign(n) == IF n > 0 THEN 1 ELSE IF n < 0 THEN -1 ELSE 0

FNeg(a) == IF IsNaN(a) THEN NaN ELSE <<a[1], -a[2]>>

FAdd(a, b) ==
  IF IsNaN(a) \/ IsNaN(b) THEN NaN
  ELSE IF IsInf(a) THEN (IF IsInf(b) /\ b[2] # a[2] THEN NaN ELSE a)
  ELSE IF IsInf(b) THEN b
  ELSE Norm(a[2] + b[2])

FSub(a, b) == FAdd(a, FNeg(b))

FMul(a, b) ==
  IF IsNaN(a) \/ IsNaN(b) THEN NaN
  ELSE IF IsInf(a) \/ IsInf(b)
       THEN (IF Sign(a[2]) * Sign(b[2]) = 0 THEN NaN
             ELSE <<"inf", Sign(a[2]) * Sign(b[2])>>)
  ELSE Norm(Round(a[2] * b[2], Scale))

\* Python scalars: exact rationals <<n, d>> with d > 0.
RMul(s, t) == <<s[1] * t[1], s[2] * t[2]>>
\* s / t for t # 0 (the caller raises ZeroDivisionError when t = 0).
RDiv(s, t) == <<s[1] * t[2] * Sign(t[1]), s[2] * t[1] * Sign(t[1])>>
RInt(n) == <<n, 1>>

\* scalar * array element
SMul(s, a) ==
  IF IsNaN(a) THEN NaN
  ELSE IF IsInf(a)
       THEN (IF s[1] = 0 THEN NaN ELSE <<"inf", Sign(s[1]) * a[2]>>)
  ELSE Norm(Round(a[2] * s[1], s[2]))

\* array element / scalar, scalar # 0
SDiv(a, s) == SMul(RDiv(RInt(1), s), a)

\* ------------------------------------------------------------ arrays
Rows(a) == Cardinality(DOMAIN a)
Cols(a) == Cardinality(DOMAIN a[0])

\* A Python index k into an axis of length n (negative counts from the end).
Py(k, n) == IF k < 0 THEN n + k ELSE k

\* a[r0:r1, c0:c1]
Slice(a, r0, r1, c0, c1) ==
  LET R0 == Py(r0, Rows(a))
      R1 == Py(r1, Rows(a))
      C0 == Py(c0, Cols(a))
      C1 == Py(c1, Cols(a))
  IN  [i \in 0..(R1 - R0 - 1) |-> [j \in 0..(C1 - C0 - 1) |-> a[R0 + i][C0 + j]]]

\* a.at[r0:r1, c0:c1].set(b)
AtSet(a, r0, r1, c0, c1, b) ==
  LET R0 == Py(r0, Rows(a))
      R1 == Py(r1, Rows(a))
      C0 == Py(c0, Cols(a))
      C1 == Py(c1, Cols(a))
  IN  [i \in DOMAIN a |-> [j \in DOMAIN a[i] |->
        IF i >= R0 /\ i < R1 /\ j >= C0 /\ j < C1
        THEN b[i - R0][j - C0] ELSE a[i][j]]]

\* a[r, :] and a[:, c]
RowOf(a, r) == [j \in DOMAIN a[0] |-> a[Py(r, Rows(a))][j]]
ColOf(a, c) == [i \in DOMAIN a |-> a[i][Py(c, Cols(a))]]

\* a.at[r, :].set(vec) and a.at[:, c].set(vec)
SetRow(a, r, vec) ==
  [i \in DOMAIN a |-> [j \in DOMAIN a[i] |->
     IF i = Py(r, Rows(a)) THEN vec[j] ELSE a[i][j]]]
SetCol(a, c, vec) ==
  [i \in DOMAIN a |-> [j \in DOMAIN a[i] |->
     IF j = Py(c, Cols(a)) THEN vec[i] ELSE a[i][j]]]

\* jnp.zeros_like(f)
ZerosLike(f) == [i \in DOMAIN f |-> [j \in DOMAIN f[i] |-> Fin(0)]]

\* elementwise array arithmetic
AAdd(a, b) == [i \in DOMAIN a |-> [j \in DOMAIN a[i] |-> FAdd(a[i][j], b[i][j])]]
ASub(a, b) == [i \in DOMAIN a |-> [j \in DOMAIN a[i] |-> FSub(a[i][j], b[i][j])]]
AMul(a, b) == [i \in DOMAIN a |-> [j \in DOMAIN a[i] |-> FMul(a[i][j], b[i][j])]]
AScale(s, a) == [i \in DOMAIN a |-> [j \in DOMAIN a[i] |-> SMul(s, a[i][j])]]
ADiv(a, s) == [i \in DOMAIN a |-> [j \in DOMAIN a[i] |-> SDiv(a[i][j], s)]]

\* ------------------------------------------------------------ constants
VISCOSITY == <<1, 10>>
DENSITY == <<1, 1>>
ELEMENT_LENGTH == <<1, N_POINTS - 1>>

\* ------------------------------------------------------------ derivatives
\* d_dx differencing the row index instead of the column index
d_dx_rows(f) ==
  AtSet(ZerosLike(f), 1, -1, 1, -1,
        ADiv(ASub(Slice(f, 2, Rows(f), 1, -1), Slice(f, 0, -2, 1, -1)),
             RMul(RInt(2), ELEMENT_LENGTH)))

d_dx(f) ==
  AtSet(ZerosLike(f), 1, -1, 1, -1,
        ADiv(ASub(Slice(f, 1, -1, 2, Cols(f)), Slice(f, 1, -1, 0, -2)),
             RMul(RInt(2), ELEMENT_LENGTH)))

d_dy(f) ==
  AtSet(ZerosLike(f), 1, -1, 1, -1,
        ADiv(ASub(Slice(f, 2, Rows(f), 1, -1), Slice(f, 0, -2, 1, -1)),
             RMul(RInt(2), ELEMENT_LENGTH)))

d2_dx2(f) ==
  AtSet(ZerosLike(f), 1, -1, 1, -1,
        ADiv(AAdd(ASub(Slice(f, 1, -1, 2, Cols(f)),
                       AScale(RInt(2), Slice(f, 1, -1, 1, -1))),
                  Slice(f, 1, -1, 0, -2)),
             RMul(ELEMENT_LENGTH, ELEMENT_LENGTH)))

d2_dy2(f) ==
  AtSet(ZerosLike(f), 1, -1, 1, -1,
        ADiv(AAdd(ASub(Slice(f, 2, Rows(f), 1, -1),
                       AScale(RInt(2), Slice(f, 1, -1, 1, -1))),
                  Slice(f, 0, -2, 1, -1)),
             RMul(ELEMENT_LENGTH, ELEMENT_LENGTH)))

laplacian(f) == AAdd(d2_dx2(f), d2_dy2(f))

\* ------------------------------------------------------------ state
VARIABLES
  TIMESTEPS,          \* configured number of timesteps
  JACOBI_ITERATIONS,  \* configured number of Jacobi sweeps per pressure update
  dt,                 \* configured timestep size (a rational)
  u_init, v_init, p_init,   \* initial conditions
  u_prev, v_prev, p_prev,   \* the current state of the timestep loop
  i,                  \* the timestep loop: the indices of range(TIMESTEPS) completed
  pc,                 \* position of the program
  u_i, v_i,           \* iterator: intermediate velocity
  rhs, k, p_next,     \* p_update: right-hand side, sweep index, sweep result
  u_next, v_next,     \* iterator: final velocity
  err,                \* the exception that ended the run, or "none"
  trace,              \* the steps the current iterator call has completed
  snapshots           \* the images printed so far: <<index, u, v, p>>

config == <<TIMESTEPS, JACOBI_ITERATIONS, dt, u_init, v_init, p_init>>
locals == <<u_i, v_i, rhs, k, p_next, u_next, v_next>>
vars == <<TIMESTEPS, JACOBI_ITERATIONS, dt, u_init, v_init, p_init,
          u_prev, v_prev, p_prev, i, pc, u_i, v_i, rhs, k, p_next,
          u_next, v_next, err, trace, snapshots>>

\* A local that holds no value (not yet assigned in the current call).
Unset == << >>

\* ------------------------------------------------------------ steps
u_intermediate(u, v) ==
  AAdd(ASub(u, AScale(dt, AAdd(AMul(u, d_dx(u)), AMul(v, d_dy(u))))),
       AScale(RMul(dt, VISCOSITY), laplacian(u)))

v_intermediate(u, v) ==
  AAdd(ASub(v, AScale(dt, AAdd(AMul(u, d_dx(v)), AMul(v, d_dy(v))))),
       AScale(RMul(dt, VISCOSITY), laplacian(v)))

\* the right-hand side with the two derivatives exchanged
p_rhs_swapped(u, v) == AScale(RDiv(DENSITY, dt), AAdd(d_dy(u), d_dx(v)))

\* p_update: the right-hand side of the pressure equation (dt # 0).
p_rhs(u, v) == AScale(RDiv(DENSITY, dt), AAdd(d_dx(u), d_dy(v)))

\* p_update: the interior update of one pass of the loop body.
p_interior(p, r) ==
  AtSet(ZerosLike(p), 1, -1, 1, -1,
        AScale(<<1, 4>>,
               ASub(AAdd(AAdd(AAdd(Slice(p, 1, -1, 2, Cols(p)),
                                   Slice(p, 1, -1, 0, -2)),
                              Slice(p, 2, Rows(p), 1, -1)),
                         Slice(p, 0, -2, 1, -1)),
                    AScale(RMul(ELEMENT_LENGTH, ELEMENT_LENGTH),
                           Slice(r, 1, -1, 1, -1)))))

\* p_update: the boundary assignments of one pass of the loop body.
p_boundary(p) ==
  LET p1 == SetCol(p, -1, ColOf(p, -2))
      p2 == SetRow(p1, 0, RowOf(p1, 1))
      p3 == SetCol(p2, 0, ColOf(p2, 1))
      p4 == SetRow(p3, -1, RowOf(p3, -1))
  IN  p4

\* p_update: one pass of the loop body, from the array the pass reads.
p_sweep(p, r) == p_boundary(p_interior(p, r))

u_update(u, p) == ASub(u, AScale(RDiv(dt, DENSITY), d_dx(p)))
v_update(v, p) == ASub(v, AScale(RDiv(dt, DENSITY), d_dy(p)))

\* iterator: "Set outside boundaries to the initial conditions" (intermediate).
enforce_u_i(u) ==
  LET a1 == SetRow(u, 0, RowOf(u_init, 0))
      a2 == SetCol(a1, 0, ColOf(u_init, 0))
      a3 == SetCol(a2, -1, ColOf(u_init, -1))
      a4 == SetRow(a3, -1, ColOf(u_init, -1))
  IN  a4

enforce_v_i(v) ==
  LET a1 == SetRow(v, 0, RowOf(v_init, 0))
      a2 == SetCol(a1, 0, ColOf(v_init, 0))
      a3 == SetCol(a2, -1, ColOf(v_init, -1))
      a4 == SetRow(a3, -1, RowOf(v_init, -1))
  IN  a4

\* the final enforcement with the bottom row taken from the last column
enforce_u_next_transposed(u) ==
  LET a1 == SetRow(u, 0, RowOf(u_init, 0))
      a2 == SetCol(a1, 0, ColOf(u_init, 0))
      a3 == SetCol(a2, -1, ColOf(u_init, -1))
      a4 == SetRow(a3, -1, ColOf(u_init, -1))
  IN  a4

\* iterator: "set the outside boundaries to the boundary conditions again".
enforce_u_next(u) ==
  LET a1 == SetRow(u, 0, RowOf(u_init, 0))
      a2 == SetCol(a1, 0, ColOf(u_init, 0))
      a3 == SetCol(a2, -1, ColOf(u_init, -1))
      a4 == SetRow(a3, -1, RowOf(u_init, -1))
  IN  a4

enforce_v_next(v) ==
  LET a1 == SetRow(v, 0, RowOf(v_init, 0))
      a2 == SetCol(a1, 0, ColOf(v_init, 0))
      a3 == SetCol(a2, -1, ColOf(v_init, -1))
      a4 == SetRow(a3, -1, RowOf(v_init, -1))
  IN  a4

\* the NaN check switched off
HasNaN_off(a) == FALSE

\* jax_debug_nans: does an array returned by a jitted call hold a NaN?
HasNaN(a) == \E r \in DOMAIN a : \E c \in DOMAIN a[r] : IsNaN(a[r][c])

\* The images are printed for the loop indices that are multiples of this
\* (1000 in the program, scaled down with the number of timesteps).
SNAPSHOT_INTERVAL == 2

\* ------------------------------------------------------------ inputs
Grid == 0..(N_POINTS - 1)

Zeros == [r \in Grid |-> [c \in Grid |-> Fin(0)]]
\* f[i,j] = x_j = j * ELEMENT_LENGTH and f[i,j] = y_i = i * ELEMENT_LENGTH
XField == [r \in Grid |-> [c \in Grid |-> SMul(ELEMENT_LENGTH, Fin(c * Scale))]]
YField == [r \in Grid |-> [c \in Grid |-> SMul(ELEMENT_LENGTH, Fin(r * Scale))]]
\* fields with no symmetry between rows and columns
Rough == [r \in Grid |-> [c \in Grid |-> Fin(((3 * r + c * c) % 7) - 3)]]
Swirl == [r \in Grid |-> [c \in Grid |-> Fin(((r * r + 2 * c) % 5) - 2)]]
\* a field with one large value next to small ones
Spike == [r \in Grid |-> [c \in Grid |->
            IF r = 2 /\ c = 1 THEN Fin(Lim - Scale) ELSE Fin(0)]]

UFields == {Zeros, XField, Rough, Spike}
VFields == {Zeros, YField, Swirl}
PFields == {Zeros, XField, Rough, Spike}
DtValues == {<<-1, 8>>, <<0, 1>>, <<1, 8>>, <<1, 1>>}

\* Initial velocities whose discrete divergence d_dx(u) + d_dy(v) is zero:
\* a stretching flow (u grows along x, v shrinks along y) and a shear flow.
StretchU == [r \in Grid |-> [c \in Grid |-> Fin(2 * c)]]
StretchV == [r \in Grid |-> [c \in Grid |-> Fin(-2 * r)]]
ShearU == [r \in Grid |-> [c \in Grid |-> Fin(2 * r)]]
ShearV == [r \in Grid |-> [c \in Grid |-> Fin(c)]]
DivFreePairs == {<<Zeros, Zeros>>, <<StretchU, StretchV>>, <<ShearU, ShearV>>}
\* A timestep size within the stability bounds of these fields.
SmallDt == <<1, 16>>

\* ------------------------------------------------------------ the program
Init ==
  /\ TIMESTEPS \in -1..MaxT
  /\ JACOBI_ITERATIONS \in -1..MaxK
  /\ dt \in DtValues
  /\ u_init \in UFields
  /\ v_init \in VFields
  /\ p_init \in PFields
  /\ u_prev = u_init /\ v_prev = v_init /\ p_prev = p_init
  /\ i = 0
  /\ pc = "loop"
  /\ u_i = Unset /\ v_i = Unset
  /\ rhs = Unset /\ k = 0 /\ p_next = Unset
  /\ u_next = Unset /\ v_next = Unset
  /\ err = "none"
  /\ trace = << >>
  /\ snapshots = << >>

\* the loop running one index too far
LoopEnter_inclusive ==
  /\ pc = "loop"
  /\ i <= TIMESTEPS
  /\ pc' = "predict"
  /\ trace' = << >>
  /\ UNCHANGED <<config, u_prev, v_prev, p_prev, i, locals, err, snapshots>>

\* for i in range(TIMESTEPS): the next index exists, iterator is called
LoopEnter ==
  /\ pc = "loop"
  /\ i < TIMESTEPS
  /\ pc' = "predict"
  /\ trace' = << >>
  /\ UNCHANGED <<config, u_prev, v_prev, p_prev, i, locals, err, snapshots>>

\* for i in range(TIMESTEPS): the range is exhausted
LoopExit ==
  /\ pc = "loop"
  /\ ~(i < TIMESTEPS)
  /\ pc' = "done"
  /\ UNCHANGED <<config, u_prev, v_prev, p_prev, i, locals, err, trace, snapshots>>

\* iterator: calculate the intermediate velocities
Predictor ==
  /\ pc = "predict"
  /\ u_i' = u_intermediate(u_prev, v_prev)
  /\ v_i' = v_intermediate(u_prev, v_prev)
  /\ pc' = "enforce_i"
  /\ trace' = Append(trace, "Predictor")
  /\ UNCHANGED <<config, u_prev, v_prev, p_prev, i, rhs, k, p_next,
                 u_next, v_next, err, snapshots>>

\* iterator: set outside boundaries to the initial conditions
EnforceIntermediate ==
  /\ pc = "enforce_i"
  /\ u_i' = enforce_u_i(u_i)
  /\ v_i' = enforce_v_i(v_i)
  /\ pc' = "p_update"
  /\ trace' = Append(trace, "EnforceIntermediate")
  /\ UNCHANGED <<config, u_prev, v_prev, p_prev, i, rhs, k, p_next,
                 u_next, v_next, err, snapshots>>

\* p_update: the right-hand side; DENSITY / dt raises when dt is zero
PressureBegin ==
  /\ pc = "p_update"
  /\ IF dt[1] = 0
     THEN /\ err' = "ZeroDivisionError"
          /\ pc' = "error"
          /\ UNCHANGED <<rhs, k>>
     ELSE /\ rhs' = p_rhs(u_i, v_i)
          /\ k' = 0
          /\ pc' = "jacobi"
          /\ err' = err
  /\ UNCHANGED <<config, u_prev, v_prev, p_prev, i, u_i, v_i, p_next,
                 u_next, v_next, trace, snapshots>>

\* p_update: one pass of for i in range(JACOBI_ITERATIONS)
JacobiSweep ==
  /\ pc = "jacobi"
  /\ k < JACOBI_ITERATIONS
  /\ p_next' = p_sweep(p_prev, rhs)
  /\ k' = k + 1
  /\ UNCHANGED <<config, u_prev, v_prev, p_prev, i, pc, u_i, v_i, rhs,
                 u_next, v_next, err, trace, snapshots>>

\* p_update with p_next bound before the loop, so that zero passes return it
PressureReturn_prebound ==
  /\ pc = "jacobi"
  /\ ~(k < JACOBI_ITERATIONS)
  /\ p_next' = IF p_next = Unset THEN ZerosLike(p_prev) ELSE p_next
  /\ pc' = "correct"
  /\ trace' = Append(trace, "PressureSolve")
  /\ UNCHANGED <<config, u_prev, v_prev, p_prev, i, u_i, v_i, rhs, k,
                 u_next, v_next, err, snapshots>>

\* p_update: return p_next, which is unbound when the loop body never ran
PressureReturn ==
  /\ pc = "jacobi"
  /\ ~(k < JACOBI_ITERATIONS)
  /\ IF p_next = Unset
     THEN /\ err' = "UnboundLocalError"
          /\ pc' = "error"
          /\ trace' = trace
     ELSE /\ pc' = "correct"
          /\ trace' = Append(trace, "PressureSolve")
          /\ err' = err
  /\ UNCHANGED <<config, u_prev, v_prev, p_prev, i, locals, snapshots>>

\* the iterator returning right after the correction
Corrector_returning ==
  /\ pc = "correct"
  /\ u_next' = u_update(u_i, p_prev)
  /\ v_next' = v_update(v_i, p_prev)
  /\ pc' = "return"
  /\ trace' = Append(trace, "Corrector")
  /\ UNCHANGED <<config, u_prev, v_prev, p_prev, i, u_i, v_i, rhs, k, p_next,
                 err, snapshots>>

\* iterator: update the final velocities
Corrector ==
  /\ pc = "correct"
  /\ u_next' = u_update(u_i, p_prev)
  /\ v_next' = v_update(v_i, p_prev)
  /\ pc' = "enforce_f"
  /\ trace' = Append(trace, "Corrector")
  /\ UNCHANGED <<config, u_prev, v_prev, p_prev, i, u_i, v_i, rhs, k, p_next,
                 err, snapshots>>

\* iterator: set the outside boundaries to the boundary conditions again
EnforceFinal ==
  /\ pc = "enforce_f"
  /\ u_next' = enforce_u_next(u_next)
  /\ v_next' = enforce_v_next(v_next)
  /\ pc' = "return"
  /\ trace' = Append(trace, "EnforceFinal")
  /\ UNCHANGED <<config, u_prev, v_prev, p_prev, i, u_i, v_i, rhs, k, p_next,
                 err, snapshots>>

\* iterator returns; jax_debug_nans raises on a NaN in the returned arrays,
\* otherwise the loop assigns u_prev, v_prev, p_prev
Return ==
  /\ pc = "return"
  /\ IF HasNaN(u_next) \/ HasNaN(v_next) \/ HasNaN(p_next)
     THEN /\ err' = "FloatingPointError"
          /\ pc' = "error"
          /\ UNCHANGED <<u_prev, v_prev, p_prev, locals>>
     ELSE /\ u_prev' = u_next
          /\ v_prev' = v_next
          /\ p_prev' = p_next
          /\ pc' = "snapshot"
          /\ err' = err
          /\ u_i' = Unset /\ v_i' = Unset
          /\ rhs' = Unset /\ k' = 0 /\ p_next' = Unset
          /\ u_next' = Unset /\ v_next' = Unset
  /\ UNCHANGED <<config, i, trace, snapshots>>

\* the image printed when the number of completed timesteps is a multiple
Snapshot_offbyone ==
  /\ pc = "snapshot"
  /\ snapshots' = IF (i + 1) % SNAPSHOT_INTERVAL = 0
                  THEN Append(snapshots, <<i, u_prev, v_prev, p_prev>>)
                  ELSE snapshots
  /\ i' = i + 1
  /\ pc' = "loop"
  /\ UNCHANGED <<config, u_prev, v_prev, p_prev, locals, err, trace>>

\* the loop body after the call: print an image every SNAPSHOT_INTERVAL indices
Snapshot ==
  /\ pc = "snapshot"
  /\ snapshots' = IF i % SNAPSHOT_INTERVAL = 0
                  THEN Append(snapshots, <<i, u_prev, v_prev, p_prev>>)
                  ELSE snapshots
  /\ i' = i + 1
  /\ pc' = "loop"
  /\ UNCHANGED <<config, u_prev, v_prev, p_prev, locals, err, trace>>

Next ==
  \/ LoopEnter
  \/ LoopExit
  \/ Predictor
  \/ EnforceIntermediate
  \/ PressureBegin
  \/ JacobiSweep
  \/ PressureReturn
  \/ Corrector
  \/ EnforceFinal
  \/ Return
  \/ Snapshot

Spec == Init /\ [][Next]_vars

\* The same program run from divergence-free initial velocities, with a
\* positive configuration and a small timestep size.
InitDivFree ==
  /\ TIMESTEPS \in 0..MaxLongT
  /\ JACOBI_ITERATIONS \in 1..MaxK
  /\ dt = SmallDt
  /\ \E uv \in DivFreePairs : u_init = uv[1] /\ v_init = uv[2]
  /\ p_init \in PFields
  /\ u_prev = u_init /\ v_prev = v_init /\ p_prev = p_init
  /\ i = 0
  /\ pc = "loop"
  /\ u_i = Unset /\ v_i = Unset
  /\ rhs = Unset /\ k = 0 /\ p_next = Unset
  /\ u_next = Unset /\ v_next = Unset
  /\ err = "none"
  /\ trace = << >>
  /\ snapshots = << >>

SpecDivFree == InitDivFree /\ [][Next]_vars

\* ------------------------------------------------------------ claims
Last == N_POINTS - 1
OnBoundary(r, c) == r = 0 \/ r = Last \/ c = 0 \/ c = Last
InCall == pc \in {"predict", "enforce_i", "p_update", "jacobi", "correct",
                  "enforce_f", "return"}
StateIsInitial == u_prev = u_init /\ v_prev = v_init /\ p_prev = p_init
\* A configuration with every parameter positive.
ValidConfig == TIMESTEPS >= 1 /\ JACOBI_ITERATIONS >= 1 /\ dt[1] > 0

\* C1: in every state of the run, at every boundary cell (row 0, row N-1,
\* column 0, column N-1), the current u and v equal u_init and v_init.
C1_DirichletInvariant ==
  \A r \in Grid : \A c \in Grid :
    OnBoundary(r, c) =>
      /\ u_prev[r][c] = u_init[r][c]
      /\ v_prev[r][c] = v_init[r][c]

\* C1 witness: a timestep has returned, has changed the interior of u and v,
\* and the initial u is not symmetric between its last row and last column.
C1_Witness ==
  /\ i >= 1
  /\ pc = "loop"
  /\ u_prev # u_init
  /\ v_prev # v_init
  /\ RowOf(u_init, -1) # ColOf(u_init, -1)

\* The four Neumann equalities of a pressure array.
NeumannHolds(p) ==
  /\ \A r \in Grid : p[r][0] = p[r][1] /\ p[r][Last] = p[r][Last - 1]
  /\ \A c \in Grid : p[0][c] = p[1][c] /\ p[Last][c] = p[Last - 1][c]

\* C2 (as stated): in a run of a valid configuration, after the boundary pass
\* of every Jacobi sweep, and in the pressure every timestep returns, each edge
\* cell of the pressure equals its adjacent interior neighbour on all four
\* edges.
C2_NeumannInvariant ==
  ValidConfig =>
    /\ (p_next # Unset => NeumannHolds(p_next))
    /\ (i >= 1 => NeumannHolds(p_prev))

\* The n-fold composition of the single-sweep map with a fixed right-hand side.
RECURSIVE SweepChain(_, _, _)
SweepChain(n, p, r) == IF n <= 0 THEN p ELSE p_sweep(SweepChain(n - 1, p, r), r)

\* C3 (as stated): in a run of a valid configuration, p_update has made
\* exactly K sweeps when it returns, and the pressure it returns is the K-fold
\* composition of the single-sweep map applied to p_prev with the fixed
\* right-hand side.
C3_ChainedSweeps ==
  ValidConfig /\ pc = "correct" =>
    /\ k = JACOBI_ITERATIONS
    /\ p_next = SweepChain(JACOBI_ITERATIONS, p_prev, rhs)

\* C4 (as stated): in a run of a valid configuration, the corrector subtracts
\* the gradient of the pressure the same timestep's p_update returned.
C4_CorrectorUsesSolvedPressure ==
  ValidConfig /\ pc = "enforce_f" =>
    /\ u_next = u_update(u_i, p_next)
    /\ v_next = v_update(v_i, p_next)

\* C5 (as stated): in a run of a valid configuration, when p_update is called
\* every edge of the intermediate u and v holds the matching edge of its own
\* initial condition.
C5_IntermediateBoundary ==
  ValidConfig /\ pc = "p_update" =>
    /\ RowOf(u_i, 0) = RowOf(u_init, 0)
    /\ RowOf(u_i, -1) = RowOf(u_init, -1)
    /\ ColOf(u_i, 0) = ColOf(u_init, 0)
    /\ ColOf(u_i, -1) = ColOf(u_init, -1)
    /\ RowOf(v_i, 0) = RowOf(v_init, 0)
    /\ RowOf(v_i, -1) = RowOf(v_init, -1)
    /\ ColOf(v_i, 0) = ColOf(v_init, 0)
    /\ ColOf(v_i, -1) = ColOf(v_init, -1)

StepOrder == <<"Predictor", "EnforceIntermediate", "PressureSolve",
               "Corrector", "EnforceFinal">>

\* C6: the loop is left after exactly TIMESTEPS completed transitions, never
\* more; the steps of a transition are completed in the order Predictor,
\* EnforceIntermediate, PressureSolve, Corrector, EnforceFinal, all five when
\* the call returns; and each step's result is computed from results of
\* earlier steps of the same call or from the state the call started with.
C6_TransitionOrder ==
  /\ i <= (IF TIMESTEPS < 0 THEN 0 ELSE TIMESTEPS)
  /\ (pc = "done" /\ TIMESTEPS >= 0 => i = TIMESTEPS)
  /\ (InCall => i < TIMESTEPS)
  /\ Len(trace) <= Len(StepOrder)
  /\ trace = SubSeq(StepOrder, 1, Len(trace))
  /\ (pc \in {"return", "snapshot"} => trace = StepOrder)
  /\ (pc = "return" =>
        /\ u_i = enforce_u_i(u_intermediate(u_prev, v_prev))
        /\ v_i = enforce_v_i(v_intermediate(u_prev, v_prev))
        /\ rhs = p_rhs(u_i, v_i)
        /\ p_next = p_sweep(p_prev, rhs)
        /\ u_next = enforce_u_next(u_update(u_i, p_prev))
        /\ v_next = enforce_v_next(v_update(v_i, p_prev)))

\* C6 witness: a run of two or more timesteps has reached the end of the loop.
C6_Witness == pc = "done" /\ TIMESTEPS >= 2 /\ i = TIMESTEPS

AllFinite(a) == \A r \in DOMAIN a : \A c \in DOMAIN a[r] : IsFinite(a[r][c])
SomeNaN(a) == \E r \in DOMAIN a : \E c \in DOMAIN a[r] : a[r][c] = NaN

\* C7 (as stated): in a run of a valid configuration no timestep is started
\* from a current state that holds a non-finite value (NaN or +/-Inf): the run
\* has halted at the timestep that produced it.
C7_HaltOnNonFinite ==
  ValidConfig /\ pc = "predict" =>
    AllFinite(u_prev) /\ AllFinite(v_prev) /\ AllFinite(p_prev)

\* C7 (amended): a NaN in the arrays a timestep returns halts the run at that
\* timestep with FloatingPointError, the current state staying as it was, so
\* the current state never holds a NaN; the halted run takes no further step.
C7_HaltOnNaN ==
  /\ ~SomeNaN(u_prev) /\ ~SomeNaN(v_prev) /\ ~SomeNaN(p_prev)
  /\ (err = "FloatingPointError" =>
        /\ pc = "error"
        /\ SomeNaN(u_next) \/ SomeNaN(v_next) \/ SomeNaN(p_next))
  /\ (pc = "error" => err # "none" /\ ~ENABLED Next)

\* C7 witness: a timestep returned a NaN and the run halted on it.
C7_Witness ==
  /\ pc = "error"
  /\ err = "FloatingPointError"
  /\ SomeNaN(u_next) \/ SomeNaN(v_next) \/ SomeNaN(p_next)

NonPositiveConfig ==
  TIMESTEPS <= 0 \/ JACOBI_ITERATIONS <= 0 \/ dt[1] <= 0

\* C8 (as stated): a configuration with a non-positive TIMESTEPS,
\* JACOBI_ITERATIONS or dt is rejected with a ConfigurationError before the
\* run starts: no timestep is entered and the loop is not completed.
C8_RejectedBeforeRun ==
  NonPositiveConfig =>
    \/ (pc = "loop" /\ i = 0)
    \/ (pc = "error" /\ err = "ConfigurationError")

\* C8 (amended): nothing is validated before the run.  TIMESTEPS <= 0 is
\* accepted: no timestep runs and the run ends normally in the initial state.
\* JACOBI_ITERATIONS <= 0 and dt = 0 fail inside the first timestep, after the
\* predictor and the intermediate enforcement ran (UnboundLocalError at the
\* return of p_update, ZeroDivisionError at its right-hand side), and no
\* pressure is ever returned.  dt < 0 is run like any other timestep size.
C8_NoValidation ==
  /\ err \in {"none", "ZeroDivisionError", "UnboundLocalError",
              "FloatingPointError"}
  /\ (TIMESTEPS <= 0 =>
        pc \in {"loop", "done"} /\ i = 0 /\ err = "none" /\ StateIsInitial)
  /\ (JACOBI_ITERATIONS <= 0 \/ dt[1] = 0 =>
        /\ pc \notin {"correct", "enforce_f", "return", "snapshot"}
        /\ i = 0
        /\ StateIsInitial)
  /\ (err = "ZeroDivisionError" <=>
        pc = "error" /\ dt[1] = 0)
  /\ (err = "UnboundLocalError" <=>
        pc = "error" /\ dt[1] # 0 /\ JACOBI_ITERATIONS <= 0)
  /\ (err \in {"ZeroDivisionError", "UnboundLocalError"} =>
        i = 0 /\ trace = <<"Predictor", "EnforceIntermediate">>)
  /\ (dt[1] < 0 => err \notin {"ZeroDivisionError"})

\* C8 witness: a run with a non-positive JACOBI_ITERATIONS was started and
\* failed inside its first timestep.
C8_Witness ==
  /\ pc = "error"
  /\ err = "UnboundLocalError"
  /\ JACOBI_ITERATIONS <= 0
  /\ TIMESTEPS >= 1
  /\ trace = <<"Predictor", "EnforceIntermediate">>

\* C9: with TIMESTEPS = 0 no transition is performed and the current state
\* equals the initial conditions, cell for cell.
C9_ZeroSteps ==
  TIMESTEPS = 0 =>
    /\ pc \in {"loop", "done"}
    /\ i = 0
    /\ trace = << >>
    /\ \A r \in Grid : \A c \in Grid :
         /\ u_prev[r][c] = u_init[r][c]
         /\ v_prev[r][c] = v_init[r][c]
         /\ p_prev[r][c] = p_init[r][c]

\* C9 witness: a run with TIMESTEPS = 0 has ended, from initial conditions
\* that a timestep would change.
C9_Witness ==
  /\ TIMESTEPS = 0
  /\ pc = "done"
  /\ u_init = Rough
  /\ JACOBI_ITERATIONS >= 1
  /\ dt[1] > 0

\* The centred-difference stencils at an interior cell.
StencilX(f, r, c) ==
  SDiv(FSub(f[r][c + 1], f[r][c - 1]), RMul(RInt(2), ELEMENT_LENGTH))
StencilY(f, r, c) ==
  SDiv(FSub(f[r + 1][c], f[r - 1][c]), RMul(RInt(2), ELEMENT_LENGTH))
StencilXX(f, r, c) ==
  SDiv(FAdd(FSub(f[r][c + 1], SMul(RInt(2), f[r][c])), f[r][c - 1]),
       RMul(ELEMENT_LENGTH, ELEMENT_LENGTH))
StencilYY(f, r, c) ==
  SDiv(FAdd(FSub(f[r + 1][c], SMul(RInt(2), f[r][c])), f[r - 1][c]),
       RMul(ELEMENT_LENGTH, ELEMENT_LENGTH))

\* The N x N field that is 0 on the boundary and St(f, r, c) inside.
StencilField(St(_, _, _), f) ==
  [r \in Grid |-> [c \in Grid |->
     IF OnBoundary(r, c) THEN Fin(0) ELSE St(f, r, c)]]
StencilLap(f, r, c) == FAdd(StencilXX(f, r, c), StencilYY(f, r, c))

OperatorsCorrectOn(f) ==
  /\ d_dx(f) = StencilField(StencilX, f)
  /\ d_dy(f) = StencilField(StencilY, f)
  /\ d2_dx2(f) = StencilField(StencilXX, f)
  /\ d2_dy2(f) = StencilField(StencilYY, f)
  /\ laplacian(f) = StencilField(StencilLap, f)

\* C10: on every field of every state the timestep loop holds between two
\* timesteps (the initial conditions and each timestep's result), the five
\* operators return an N x N field that is exactly 0 on the boundary and the centred-difference
\* stencil at every interior cell (d_dx along the column index, d_dy along
\* the row index); and for the field f[i,j] = j*h, where j*h is representable
\* (the 5 x 5 grid with h = 0.25), d_dx(f) is 1 at every interior cell and 0
\* on the boundary and laplacian(f) is 0 everywhere.
C10_OperatorCorrectness ==
  pc = "loop" =>
  /\ OperatorsCorrectOn(u_prev)
  /\ OperatorsCorrectOn(v_prev)
  /\ OperatorsCorrectOn(p_prev)
  /\ (u_prev = XField /\ Scale % (N_POINTS - 1) = 0 =>
        /\ u_prev = [r \in Grid |-> [c \in Grid |->
                       Fin(c * (Scale \div (N_POINTS - 1)))]]
        /\ d_dx(u_prev) = [r \in Grid |-> [c \in Grid |->
                             IF OnBoundary(r, c) THEN Fin(0) ELSE Fin(Scale)]]
        /\ laplacian(u_prev) = Zeros)

\* C10 witness: a timestep has returned on the 5 x 5 grid, from u = j*h and
\* a v that is constant along neither axis, and the loop holds its result.
C10_Witness ==
  /\ N_POINTS = 5
  /\ pc = "loop"
  /\ i = 1
  /\ u_init = XField
  /\ v_init = Swirl
  /\ v_prev # v_init
  /\ d_dx(u_init)[2][2] = Fin(Scale)

\* The discrete divergence of a velocity and the largest magnitude of a field.
Divergence(u, v) == AAdd(d_dx(u), d_dy(v))
Mag(a) == IF a[2] < 0 THEN -a[2] ELSE a[2]
MaxAbs(f) ==
  LET mags == {Mag(f[r][c]) : r \in Grid, c \in Grid}
  IN  CHOOSE m \in mags : \A n \in mags : n <= m

\* dt <= h^2 / (4 nu) and dt * |w| / h < 1 for every initial velocity value w.
StableDt ==
  /\ dt[1] > 0
  /\ dt[1] * 4 * VISCOSITY[1] * (N_POINTS - 1) * (N_POINTS - 1)
       <= dt[2] * VISCOSITY[2]
  /\ dt[1] * MaxAbs(u_init) * (N_POINTS - 1) < dt[2] * Scale
  /\ dt[1] * MaxAbs(v_init) * (N_POINTS - 1) < dt[2] * Scale

\* C11 (as stated, for an intermediate velocity whose divergence is not zero):
\* in the first timestep of a run from a divergence-free initial velocity,
\* with JACOBI_ITERATIONS >= 1 and a stable dt, the largest magnitude of the
\* divergence of the velocity the timestep returns is smaller than that of
\* the boundary-enforced intermediate velocity.
C11_DivergenceReduced ==
  ( /\ pc = "return"
    /\ i = 0
    /\ JACOBI_ITERATIONS >= 1
    /\ StableDt
    /\ Divergence(u_init, v_init) = Zeros
    /\ AllFinite(u_next) /\ AllFinite(v_next)
    /\ AllFinite(Divergence(u_next, v_next))
    /\ MaxAbs(Divergence(u_i, v_i)) > 0 )
  => MaxAbs(Divergence(u_next, v_next)) < MaxAbs(Divergence(u_i, v_i))

\* The intermediate enforcement of u with the bottom row taken from the last
\* row of u_init, every other assignment as in the iterator.
enforce_u_i_symmetric(u) ==
  LET a1 == SetRow(u, 0, RowOf(u_init, 0))
      a2 == SetCol(a1, 0, ColOf(u_init, 0))
      a3 == SetCol(a2, -1, ColOf(u_init, -1))
      a4 == SetRow(a3, -1, RowOf(u_init, -1))
  IN  a4

\* the intermediate u of the running call, had its bottom row been set from
\* the last row of u_init
u_i_symmetric == enforce_u_i_symmetric(u_intermediate(u_prev, v_prev))

\* C12: what the iterator returns does not depend on what the intermediate
\* enforcement writes into the bottom row of u*: computed from the
\* intermediate u whose bottom row is the last row of u_init, the pressure
\* solve, the corrector and the final enforcement give the same p_next,
\* u_next and v_next as the call returns (bottom row from the last column).
C12_BottomRowIrrelevant ==
  pc = "return" =>
    /\ p_next = p_sweep(p_prev, p_rhs(u_i_symmetric, v_i))
    /\ u_next = enforce_u_next(u_update(u_i_symmetric, p_prev))
    /\ v_next = enforce_v_next(v_update(v_i, p_prev))

\* a call returns whose intermediate u differs between the two versions
C12_Witness ==
  /\ pc = "return"
  /\ u_i_symmetric # u_i
  /\ AllFinite(u_next) /\ AllFinite(v_next) /\ AllFinite(p_next)

\* What one call of iterator returns for the state st = <<u, v, p>>: the five
\* steps composed (every pass of the pressure loop reads the p passed in).
IteratorResult(st) ==
  LET ui == enforce_u_i(u_intermediate(st[1], st[2]))
      vi == enforce_v_i(v_intermediate(st[1], st[2]))
  IN  << enforce_u_next(u_update(ui, st[3])),
         enforce_v_next(v_update(vi, st[3])),
         p_sweep(st[3], p_rhs(ui, vi)) >>

\* The value st itself; the comparison makes TLC build the arrays once instead
\* of at every later access to a cell.
Evaluated(st) == IF st = st THEN st ELSE st

\* the state after n transitions from the initial conditions
RECURSIVE StateAfter(_)
StateAfter(n) ==
  IF n = 0
  THEN <<u_init, v_init, p_init>>
  ELSE LET before == Evaluated(StateAfter(n - 1))
       IN  Evaluated(IteratorResult(before))

\* the number of loop indices below n that are multiples of the interval
MultiplesBelow(n) ==
  IF n <= 0 THEN 0 ELSE ((n - 1) \div SNAPSHOT_INTERVAL) + 1

====
